---------------------------- MODULE Spec2Model ----------------------------
(***************************************************************************)
(* A model of poet's Installer (src/poet/installer.py).                    *)
(*                                                                         *)
(* The module holds one specification per part of the installer:           *)
(*   SpecResolve  the attribution done by Installer._resolve (category,    *)
(*                optionality and python restriction of every match);      *)
(*   SpecPlan     the planner Installer._resolve_update_actions;           *)
(*   SpecVcs      Installer._get_vcs_version and the working directory;    *)
(*   SpecCompare  the merge of Installer._resolve_and_compare;             *)
(*   SpecUpdate   Installer.update, from the read of the lock to its write.*)
(* The variables are named after the locals and fields of the source; a    *)
(* specification that does not use a variable keeps it at Idle.            *)
(***************************************************************************)
EXTENDS Naturals, Integers, Sequences, FiniteSets, TLC

VARIABLES
    pc,                     \* where the modelled operation stands
    error,                  \* the exception that ended it, or None
    deps,                   \* `deps`: the dependencies handed to the operation
    reversed_dependencies,  \* _resolve: child -> its parents, in the order the set iterates
    matches,                \* _resolve: the names resolver.resolve() matched
    packages,               \* the packages a resolution returned
    current_deps,           \* planner, update: the dependencies of the current lock
    delete,                 \* planner, update: whether removals are planned
    actions,                \* planner, update: the planned (action, from_, dep) tuples
    new_packages,           \* _resolve_and_compare: the targeted resolution
    all_packages,           \* _resolve_and_compare: the full resolution
    cwd,                    \* the process working directory
    base_dir,               \* self._poet.base_dir
    tmp_dirs,               \* the temporary directories that exist
    tmp_dir,                \* _get_vcs_version: the directory mkdtemp() returned
    caller_cwd,             \* the working directory when _get_vcs_version was called
    version,                \* _get_vcs_version: the version it built
    unpinned,               \* the VCS matches _resolve still has to ask about
    lock_file,              \* update: the content of the lock file
    lock_start,             \* update: the content of the lock file when update started
    lock_writes,            \* update: how often _write_lock wrote the file
    executed,               \* update: the pip commands run so far
    targets,                \* update: its `packages` argument
    features,               \* update: its `features` argument
    dry_run,                \* self._dry_run
    is_lock                 \* self._poet.is_lock()

resolveVars == << reversed_dependencies, matches >>
planVars == << current_deps, delete, actions >>
compareVars == << new_packages, all_packages >>
vcsVars == << cwd, base_dir, tmp_dirs, tmp_dir, caller_cwd, version, unpinned >>
updateVars == << lock_file, lock_start, lock_writes, executed, targets, features,
                dry_run, is_lock >>

vars == << pc, error, deps, packages, resolveVars, planVars, compareVars, vcsVars,
           updateVars >>

None == "None"
Idle == "idle"

\* What a specification leaves alone.
IdleResolve == reversed_dependencies = Idle /\ matches = Idle
IdlePlan == current_deps = Idle /\ delete = Idle /\ actions = Idle
IdleCompare == new_packages = Idle /\ all_packages = Idle
IdleVcs ==
    /\ cwd = Idle /\ base_dir = Idle /\ tmp_dirs = Idle /\ tmp_dir = Idle
    /\ caller_cwd = Idle /\ version = Idle /\ unpinned = Idle
IdleUpdate ==
    /\ lock_file = Idle /\ lock_start = Idle /\ lock_writes = Idle /\ executed = Idle
    /\ targets = Idle /\ features = Idle /\ dry_run = Idle /\ is_lock = Idle

-----------------------------------------------------------------------------
(* Bounds and universes of the model.                                      *)

\* Canonical package names the resolver may return.
Names == {"a", "b", "c"}

\* Most declared dependencies of a project.
MaxDeps == 2

\* Most (child, parent) entries of the reverse-dependency map.
MaxEdges == 3

\* Depth at which the interpreter refuses one more frame (sys.getrecursionlimit());
\* any value above Cardinality(Names) lets every acyclic chain finish.
RecursionLimit == 4

\* python restrictions a declaration may carry: none, or one range.
Pythons == { {}, {"2.7"} }

-----------------------------------------------------------------------------
(* Helpers on sequences.                                                   *)

Range(s) == { s[i] : i \in 1..Len(s) }

NoDuplicates(s) == \A i, j \in 1..Len(s) : i # j => s[i] # s[j]

SeqsUpTo(S, n) == UNION { [1..k -> S] : k \in 0..n }

\* A set of names as the sorted list `sorted(..., key=lambda p: p['name'].lower())`
\* gives; canonical names are lower case, so the key is the name itself.
NameRank(n) == CASE n = "a" -> 1 [] n = "b" -> 2 [] n = "c" -> 3 [] OTHER -> 4

-----------------------------------------------------------------------------
(* Installer._resolve: attribution.                                        *)

UNSAFE == {"setuptools"}

\* `for dep in deps: if dep.name == name: ... break`: the index of the first
\* dependency of that name, 0 when the loop ends without a match.
FindDep(ds, name) ==
    IF \E i \in 1..Len(ds) : ds[i].name = name
    THEN CHOOSE i \in 1..Len(ds) :
            /\ ds[i].name = name
            /\ \A j \in 1..(i - 1) : ds[j].name # name
    ELSE 0

\* The result of a call that died of "maximum recursion depth exceeded".
RecursionError == [err |-> TRUE, cat |-> None, opt |-> FALSE, calls |-> 0]

RECURSIVE _category(_, _, _, _)
RECURSIVE CategoryParents(_, _, _, _, _)

\* The body of `for parent in parents` of _category, from the i-th parent on.
\* A declared parent decides at once; otherwise the parent is asked, and its
\* answer is returned with this frame's own `opt`, which is still False.
CategoryParents(parents, i, ds, rdeps, depth) ==
    IF i > Len(parents)
    THEN [err |-> FALSE, cat |-> None, opt |-> FALSE, calls |-> 0]
    ELSE LET parent == parents[i]
             k == FindDep(ds, parent)
         IN  IF k # 0
             THEN [err |-> FALSE,
                   cat |-> IF ds[k].category = "main" THEN "main" ELSE "dev",
                   opt |-> ds[k].optional,
                   calls |-> 0]
             ELSE LET r == _category(parent, ds, rdeps, depth + 1)
                  IN  IF r.err THEN r
                      ELSE IF r.cat # None
                      THEN [err |-> FALSE, cat |-> r.cat, opt |-> FALSE,
                            calls |-> r.calls]
                      ELSE LET rest == CategoryParents(parents, i + 1, ds, rdeps, depth)
                           IN  IF rest.err THEN rest
                               ELSE [rest EXCEPT !.calls = @ + r.calls]

\* _category(child): `calls` counts the invocations, this one included.
_category(child, ds, rdeps, depth) ==
    IF depth > RecursionLimit
    THEN RecursionError
    ELSE LET r == CategoryParents(rdeps[child], 1, ds, rdeps, depth)
         IN  IF r.err THEN r ELSE [r EXCEPT !.calls = @ + 1]

RECURSIVE _get_pythons_for_package(_, _, _, _)
RECURSIVE PythonsParents(_, _, _, _, _, _)

\* `for parent in parents: pythons = pythons.union(parent_pythons)`.
PythonsParents(parents, i, pythons, rdeps, ds, depth) ==
    IF i > Len(parents)
    THEN [err |-> FALSE, pythons |-> IF pythons = {} THEN {"*"} ELSE pythons]
    ELSE LET r == _get_pythons_for_package(parents[i], rdeps, ds, depth + 1)
         IN  IF r.err THEN r
             ELSE PythonsParents(parents, i + 1, pythons \cup r.pythons,
                                 rdeps, ds, depth)

_get_pythons_for_package(name, rdeps, ds, depth) ==
    IF depth > RecursionLimit
    THEN [err |-> TRUE, pythons |-> {}]
    ELSE IF rdeps[name] = << >>
    THEN \* `name not in reversed_dependencies`
         LET k == FindDep(ds, name)
             own == IF k # 0 THEN ds[k].python ELSE {}
         IN  [err |-> FALSE, pythons |-> IF own = {} THEN {"*"} ELSE own]
    ELSE PythonsParents(rdeps[name], 1, {}, rdeps, ds, depth)

\* Attribute without its first loop: every match is attributed through its parents.
AttributeByParents(name, ds, rdeps) ==
    LET r == _category(name, ds, rdeps, 1)
    IN  IF r.err THEN r
        ELSE IF r.cat = None
        THEN [r EXCEPT !.cat = "main", !.opt = FALSE]
        ELSE r

\* Lines 415-460: the category and optional flag of one match.
Attribute(name, ds, rdeps) ==
    LET k == FindDep(ds, name)
    IN  IF k # 0
        THEN [err |-> FALSE, cat |-> ds[k].category, opt |-> ds[k].optional,
              calls |-> 0]
        ELSE LET r == _category(name, ds, rdeps, 1)
             IN  IF r.err THEN r
                 ELSE IF r.cat = None
                 THEN [r EXCEPT !.cat = "main", !.opt = FALSE]
                 ELSE r

\* Lines 465-474: the python restriction of one match.
PythonOf(name, ds, rdeps) ==
    LET r == _get_pythons_for_package(name, rdeps, ds, 1)
    IN  IF r.err THEN r
        ELSE [r EXCEPT !.pythons = IF "*" \in @ THEN {"*"} ELSE @]

\* The package record of one match (lines 476-483); category_calls records how
\* often _category ran for it.
Package(name, ds, rdeps) ==
    LET a == Attribute(name, ds, rdeps)
        p == PythonOf(name, ds, rdeps)
    IN  [name |-> name,
         category |-> a.cat,
         optional |-> a.opt,
         python |-> p.pythons,
         category_calls |-> a.calls]

\* Whether the loop over the matches dies of a RecursionError.
Overflows(ms, ds, rdeps) ==
    \E n \in ms \ UNSAFE :
        \/ Attribute(n, ds, rdeps).err
        \/ PythonOf(n, ds, rdeps).err

\* sorted(packages, key=lambda p: p['name'].lower())
RECURSIVE SortedPackages(_)
SortedPackages(ps) ==
    IF ps = {} THEN << >>
    ELSE LET first == CHOOSE p \in ps :
                        \A q \in ps : NameRank(p.name) <= NameRank(q.name)
         IN  << first >> \o SortedPackages(ps \ {first})

\* _resolve(deps) once the resolver answered: one package per safe match, sorted.
_resolve(ms, ds, rdeps) ==
    SortedPackages({ Package(n, ds, rdeps) : n \in ms \ UNSAFE })

-----------------------------------------------------------------------------
(* The inputs of _resolve.                                                 *)

Dependency == [name : Names, category : {"main", "dev"},
               optional : BOOLEAN, python : Pythons]

\* deps = pip_dependencies + pip_dev_dependencies (lines 209-211, 281-284):
\* the main section first, one declaration per name.
DeclaredLists ==
    { ds \in SeqsUpTo(Dependency, MaxDeps) :
        /\ NoDuplicates([i \in 1..Len(ds) |-> ds[i].name])
        /\ \A i, j \in 1..Len(ds) :
              (i < j /\ ds[i].category = "dev") => ds[j].category = "dev" }

\* The orders in which a set of parents may iterate.
Orders(S) == { s \in [1..Cardinality(S) -> S] : Range(s) = S }

Edges == { e \in Names \X Names : e[1] # e[2] }

\* The maps resolver.reverse_dependencies may build: a child is a key only
\* when it has a parent, and each parent set iterates in one fixed order.
ReverseMaps ==
    UNION { { m \in [Names -> SeqsUpTo(Names, Cardinality(Names) - 1)] :
                \A c \in Names : m[c] \in Orders({ e[2] : e \in { x \in E : x[1] = c } }) }
            : E \in { F \in SUBSET Edges : Cardinality(F) <= MaxEdges } }

DeclaredNames(ds) == { ds[i].name : i \in 1..Len(ds) }

MapNames(m) == { c \in Names : m[c] # << >> } \cup UNION { Range(m[c]) : c \in Names }

InitResolve ==
    /\ pc = "resolve"
    /\ error = None
    /\ deps \in DeclaredLists
    /\ reversed_dependencies \in ReverseMaps
    /\ \E unsafe \in SUBSET UNSAFE :
          matches = DeclaredNames(deps) \cup MapNames(reversed_dependencies) \cup unsafe
    /\ packages = << >>
    /\ IdlePlan /\ IdleCompare /\ IdleVcs /\ IdleUpdate

\* resolver.resolve() raises (unsatisfiable constraints, network): propagated.
ResolverFails ==
    /\ pc = "resolve"
    /\ pc' = "raised"
    /\ error' = "ResolutionError"
    /\ UNCHANGED << deps, packages, resolveVars, planVars, compareVars, vcsVars,
                    updateVars >>

\* The loop over the matches hits a cycle of the map: RecursionError.
ResolveOverflows ==
    /\ pc = "resolve"
    /\ Overflows(matches, deps, reversed_dependencies)
    /\ pc' = "raised"
    /\ error' = "RecursionError"
    /\ UNCHANGED << deps, packages, resolveVars, planVars, compareVars, vcsVars,
                    updateVars >>

ResolveReturns ==
    /\ pc = "resolve"
    /\ ~Overflows(matches, deps, reversed_dependencies)
    /\ packages' = _resolve(matches, deps, reversed_dependencies)
    /\ pc' = "returned"
    /\ UNCHANGED << error, deps, resolveVars, planVars, compareVars, vcsVars,
                    updateVars >>

NextResolve == ResolverFails \/ ResolveOverflows \/ ResolveReturns

SpecResolve == InitResolve /\ [][NextResolve]_vars

-----------------------------------------------------------------------------
(* Properties of the attribution, under SpecResolve.                       *)

Returned == pc = "returned"

Parents(name) == Range(reversed_dependencies[name])

DeclaredAs(name, category) ==
    \E i \in 1..Len(deps) : deps[i].name = name /\ deps[i].category = category

\* A resolved package that is not declared and has a declared main parent and a
\* declared dev parent.
MainAndDevParents(p) ==
    /\ FindDep(deps, p.name) = 0
    /\ \E m \in Parents(p.name) : DeclaredAs(m, "main")
    /\ \E d \in Parents(p.name) : DeclaredAs(d, "dev")

\* C1: every resolved package that is not declared and has both a declared main
\* parent and a declared dev parent is attributed main, in whatever order its
\* parents iterate.
C1_MainShortCircuit ==
    Returned =>
        \A i \in 1..Len(packages) :
            MainAndDevParents(packages[i]) => packages[i].category = "main"

\* C2: every resolved package named by a declared dependency has exactly that
\* declaration's category and optional flag, and _category never ran for it,
\* whatever the reverse-dependency map holds.
C2_DeclaredInheritsExactly ==
    Returned =>
        \A i \in 1..Len(packages) :
            LET p == packages[i]
                k == FindDep(deps, p.name)
            IN  k # 0 =>
                    /\ p.category = deps[k].category
                    /\ p.optional = deps[k].optional
                    /\ p.category_calls = 0

\* C2's case: a declared dev, optional package that is also a child of a declared
\* main, non-optional parent has been resolved.
C2_Witness ==
    /\ Returned
    /\ \E i \in 1..Len(packages) :
          LET p == packages[i]
              k == FindDep(deps, p.name)
          IN  /\ k # 0
              /\ deps[k].category = "dev" /\ deps[k].optional
              /\ p.category = "dev" /\ p.optional
              /\ \E m \in Parents(p.name) :
                    \E j \in 1..Len(deps) :
                        /\ deps[j].name = m
                        /\ deps[j].category = "main" /\ ~deps[j].optional

\* C3: attribution ends for every finite reverse-dependency map: _resolve never
\* dies of unbounded recursion, also when the map has a cycle.
C3_AttributionTerminates ==
    pc \in {"returned", "raised"} => error # "RecursionError"

\* The python restriction a declaration states: its own, or ['*'] without one.
DeclaredPython(k) == IF deps[k].python = {} THEN {"*"} ELSE deps[k].python

\* C10: the python restriction of every resolved package that is itself declared
\* is that declaration's own restriction, also when the package is a child in the
\* reverse-dependency map.
C10_DeclaredPythonDirect ==
    Returned =>
        \A i \in 1..Len(packages) :
            LET k == FindDep(deps, packages[i].name)
            IN  k # 0 => packages[i].python = DeclaredPython(k)

\* The ancestors of a name in the reverse-dependency map: its parents, their
\* parents, and so on.
RECURSIVE AncestorsWithin(_, _)
AncestorsWithin(S, n) ==
    IF n = 0 THEN S
    ELSE AncestorsWithin(S \cup UNION { Parents(x) : x \in S }, n - 1)

Ancestors(name) == AncestorsWithin(Parents(name), Cardinality(Names))

\* C12: a resolved package that is not declared and is attributed from a
\* declared ancestor, at whatever depth, has the category and the optional flag
\* of a declared ancestor of its own.
C12_OptionalThroughRecursion ==
    Returned =>
        \A i \in 1..Len(packages) :
            LET p == packages[i]
                declared == { k \in 1..Len(deps) : deps[k].name \in Ancestors(p.name) }
            IN  (FindDep(deps, p.name) = 0 /\ declared # {}) =>
                    \E k \in declared :
                        /\ p.category = deps[k].category
                        /\ p.optional = deps[k].optional

-----------------------------------------------------------------------------
(* Installer._resolve_update_actions: the planner.                         *)

\* Most dependencies on either side of the planner.
MaxPlanLen == 3

\* Constraints as the lock and a resolution spell them.
Constraints == {"1.0", "==1.0", "2.0"}

\* PipDependency.normalized_constraint: the pinned version without its operator.
normalized_constraint(dep) ==
    IF dep.constraint = "==1.0" THEN "1.0" ELSE dep.constraint

PipDependency == [name : Names, constraint : Constraints]

\* Lists of dependencies as a resolution or a lock gives them: one per name.
DependencyLists ==
    { ds \in SeqsUpTo(PipDependency, MaxPlanLen) :
        NoDuplicates([i \in 1..Len(ds) |-> ds[i].name]) }

\* Lines 511-528: the index of the first current dependency of that name, 0
\* when the inner loop ends with `found` still False.
FindCurrent(current, name) ==
    IF \E i \in 1..Len(current) : current[i].name = name
    THEN CHOOSE i \in 1..Len(current) :
            /\ current[i].name = name
            /\ \A j \in 1..(i - 1) : current[j].name # name
    ELSE 0

\* ActionFor that compares the constraints as spelled, not normalised.
ActionForComparingRaw(dep, current) ==
    LET k == FindCurrent(current, dep.name)
    IN  IF k = 0
        THEN << [action |-> "install", from_ |-> None, dep |-> dep] >>
        ELSE IF dep.constraint = current[k].constraint
        THEN << >>
        ELSE << [action |-> "update", from_ |-> current[k], dep |-> dep] >>

\* Lines 507-535: what one new dependency adds to `actions`.
ActionFor(dep, current) ==
    LET k == FindCurrent(current, dep.name)
    IN  IF k = 0
        THEN << [action |-> "install", from_ |-> None, dep |-> dep] >>
        ELSE IF normalized_constraint(dep) = normalized_constraint(current[k])
        THEN << >>
        ELSE << [action |-> "update", from_ |-> current[k], dep |-> dep] >>

\* Lines 505-535: `for dep in deps`, from the i-th dependency on.
RECURSIVE NewActions(_, _, _)
NewActions(ds, current, i) ==
    IF i > Len(ds) THEN << >>
    ELSE ActionFor(ds[i], current) \o NewActions(ds, current, i + 1)

\* RemovalFor that never looks for a counterpart.
RemovalForEveryCurrent(dep, ds) ==
    << [action |-> "remove", from_ |-> None, dep |-> dep] >>

\* Lines 543-552: what one current dependency adds to `actions`.
RemovalFor(dep, ds) ==
    IF \E j \in 1..Len(ds) : ds[j].name = dep.name
    THEN << >>
    ELSE << [action |-> "remove", from_ |-> None, dep |-> dep] >>

\* Lines 542-552: `for dep in current_deps`, from the i-th dependency on.
RECURSIVE Removals(_, _, _)
Removals(current, ds, i) ==
    IF i > Len(current) THEN << >>
    ELSE RemovalFor(current[i], ds) \o Removals(current, ds, i + 1)

\* _resolve_update_actions that plans removals whatever `delete` says.
AlwaysDeleting(ds, current, del) ==
    NewActions(ds, current, 1) \o Removals(current, ds, 1)

_resolve_update_actions(ds, current, del) ==
    IF ~del
    THEN NewActions(ds, current, 1)
    ELSE NewActions(ds, current, 1) \o Removals(current, ds, 1)

InitPlan ==
    /\ pc = "plan"
    /\ error = None
    /\ deps \in DependencyLists
    /\ current_deps \in DependencyLists
    /\ delete \in BOOLEAN
    /\ actions = << >>
    /\ packages = Idle
    /\ IdleResolve /\ IdleCompare /\ IdleVcs /\ IdleUpdate

Plan ==
    /\ pc = "plan"
    /\ actions' = _resolve_update_actions(deps, current_deps, delete)
    /\ pc' = "planned"
    /\ UNCHANGED << error, deps, packages, current_deps, delete, resolveVars,
                    compareVars, vcsVars, updateVars >>

NextPlan == Plan

SpecPlan == InitPlan /\ [][NextPlan]_vars

-----------------------------------------------------------------------------
(* Properties of the planner, under SpecPlan.                              *)

Planned == pc = "planned"

\* The planned actions of one kind, in their order.
OfKind(kind) == SelectSeq(actions, LAMBDA a : a.action = kind)

\* C4: planning a list against itself with removals enabled gives no action.
C4_SameOnBothSides ==
    (Planned /\ deps = current_deps /\ delete) => actions = << >>

\* C4's case: a list of two dependencies has been planned against itself.
C4_Witness ==
    /\ Planned /\ delete
    /\ deps = current_deps
    /\ Len(deps) >= 2
    /\ actions = << >>

\* What C5 says one new dependency gives.
ExpectedFor(d) ==
    IF \A j \in 1..Len(current_deps) : current_deps[j].name # d.name
    THEN << [action |-> "install", from_ |-> None, dep |-> d] >>
    ELSE LET c == CHOOSE c \in Range(current_deps) : c.name = d.name
         IN  IF normalized_constraint(c) = normalized_constraint(d)
             THEN << >>
             ELSE << [action |-> "update", from_ |-> c, dep |-> d] >>

RECURSIVE ExpectedFrom(_)
ExpectedFrom(i) ==
    IF i > Len(deps) THEN << >> ELSE ExpectedFor(deps[i]) \o ExpectedFrom(i + 1)

\* C5: in the order of the new list, each new dependency gives an install when no
\* current dependency has its name, nothing when the one that has it is equal
\* after normalisation, an update from it otherwise; against an empty current
\* list the plan is one install per new dependency.
C5_InstallsAndUpdates ==
    Planned =>
        /\ SelectSeq(actions, LAMBDA a : a.action # "remove") = ExpectedFrom(1)
        /\ current_deps = << >> =>
              actions = [i \in 1..Len(deps) |->
                            [action |-> "install", from_ |-> None, dep |-> deps[i]]]

\* C5's case: one plan holds an install, an update, and a new dependency skipped
\* although its constraint is spelled differently from the current one's.
C5_Witness ==
    /\ Planned
    /\ OfKind("install") # << >>
    /\ OfKind("update") # << >>
    /\ \E i \in 1..Len(deps) : \E j \in 1..Len(current_deps) :
          /\ deps[i].name = current_deps[j].name
          /\ deps[i].constraint # current_deps[j].constraint
          /\ \A k \in 1..Len(actions) : actions[k].dep # deps[i]

\* The current dependencies no new dependency shares its name with, in order.
Orphans ==
    SelectSeq(current_deps,
              LAMBDA c : \A j \in 1..Len(deps) : deps[j].name # c.name)

\* C6: a remove is planned for a current dependency exactly when delete is true
\* and no new dependency has its name; without delete there is none, and with
\* delete and an empty new list there is one per current dependency.
C6_RemovalsOnlyWhenDeleting ==
    Planned =>
        /\ ~delete => OfKind("remove") = << >>
        /\ delete =>
              OfKind("remove") =
                  [i \in 1..Len(Orphans) |->
                      [action |-> "remove", from_ |-> None, dep |-> Orphans[i]]]
        /\ (delete /\ deps = << >>) =>
              actions = [i \in 1..Len(current_deps) |->
                            [action |-> "remove", from_ |-> None,
                             dep |-> current_deps[i]]]

\* C6's case: a plan without delete left an orphaned current dependency alone.
C6_Witness ==
    /\ Planned /\ ~delete
    /\ Orphans # << >>
    /\ deps # << >>
    /\ OfKind("remove") = << >>

-----------------------------------------------------------------------------
(* Installer._get_vcs_version, called by _resolve for each unpinned match. *)

\* Most VCS matches of one resolution.
MaxVcsCalls == 2

\* Directories the process may stand in when it resolves.
Dirs == {"/project", "/home/user", "/srv/build"}

\* Revisions `git rev-parse` may print.
Revisions == {"1a2b3c", "4d5e6f"}

\* tempfile.mkdtemp(): a directory that did not exist, named by the call.
mkdtemp(n) == << "/tmp", n >>

InitVcs ==
    /\ pc = "resolve_loop"
    /\ error = None
    /\ cwd \in Dirs
    /\ base_dir \in Dirs
    /\ tmp_dirs = {}
    /\ tmp_dir = None
    /\ caller_cwd = None
    /\ version = None
    /\ unpinned \in 1..MaxVcsCalls
    /\ deps = Idle /\ packages = Idle
    /\ IdleResolve /\ IdlePlan /\ IdleCompare /\ IdleUpdate

\* Lines 409, 600-601: _resolve calls for its next unpinned match; the call
\* makes its temporary directory and takes current_dir from self._poet.base_dir.
CallVcsVersion ==
    /\ pc = "resolve_loop"
    /\ unpinned > 0
    /\ caller_cwd' = cwd
    /\ tmp_dir' = mkdtemp(unpinned)
    /\ tmp_dirs' = tmp_dirs \cup {mkdtemp(unpinned)}
    /\ version' = None
    /\ pc' = "unpack_url"
    /\ UNCHANGED << error, cwd, base_dir, unpinned, deps, packages, resolveVars,
                    planVars, compareVars, updateVars >>

\* Where the finally clause starts, with the exception in flight.
Raise(e) ==
    /\ error' = e
    /\ pc' = "finally"
    /\ UNCHANGED << cwd, base_dir, tmp_dirs, tmp_dir, caller_cwd, version,
                    unpinned, deps, packages, resolveVars, planVars, compareVars,
                    updateVars >>

\* Line 604: the fetch.
UnpackUrl ==
    /\ pc = "unpack_url"
    /\ pc' = "chdir"
    /\ UNCHANGED << error, deps, packages, resolveVars, planVars, compareVars,
                    vcsVars, updateVars >>

UnpackUrlFails == pc = "unpack_url" /\ Raise("FetchError")

\* Line 606: os.chdir(tmp_dir).
ChdirTmp ==
    /\ pc = "chdir"
    /\ cwd' = tmp_dir
    /\ pc' = "checkout"
    /\ UNCHANGED << error, base_dir, tmp_dirs, tmp_dir, caller_cwd, version,
                    unpinned, deps, packages, resolveVars, planVars, compareVars,
                    updateVars >>

\* Line 607: git checkout.
Checkout ==
    /\ pc = "checkout"
    /\ pc' = "rev_parse"
    /\ UNCHANGED << error, deps, packages, resolveVars, planVars, compareVars,
                    vcsVars, updateVars >>

CheckoutFails == pc = "checkout" /\ Raise("CheckoutError")

\* Lines 609-615: git rev-parse and the version built from its output.
RevParse ==
    /\ pc = "rev_parse"
    /\ \E revision \in Revisions : version' = [git |-> "url", rev |-> revision]
    /\ pc' = "finally"
    /\ UNCHANGED << error, cwd, base_dir, tmp_dirs, tmp_dir, caller_cwd, unpinned,
                    deps, packages, resolveVars, planVars, compareVars,
                    updateVars >>

RevParseFails == pc = "rev_parse" /\ Raise("RevParseError")

\* Line 619: shutil.rmtree(tmp_dir).
Rmtree ==
    /\ pc = "finally"
    /\ tmp_dirs' = tmp_dirs \ {tmp_dir}
    /\ pc' = "chdir_back"
    /\ UNCHANGED << error, cwd, base_dir, tmp_dir, caller_cwd, version, unpinned,
                    deps, packages, resolveVars, planVars, compareVars,
                    updateVars >>

\* Lines 620-623: os.chdir(current_dir), then the return or the re-raise.
ChdirBack ==
    /\ pc = "chdir_back"
    /\ cwd' = base_dir
    /\ pc' = IF error = None THEN "vcs_returned" ELSE "raised"
    /\ UNCHANGED << error, base_dir, tmp_dirs, tmp_dir, caller_cwd, version,
                    unpinned, deps, packages, resolveVars, planVars, compareVars,
                    updateVars >>

\* Lines 409-410: _resolve takes the version and goes on with its loop.
NextMatch ==
    /\ pc = "vcs_returned"
    /\ unpinned' = unpinned - 1
    /\ pc' = "resolve_loop"
    /\ UNCHANGED << error, cwd, base_dir, tmp_dirs, tmp_dir, caller_cwd, version,
                    deps, packages, resolveVars, planVars, compareVars,
                    updateVars >>

NextVcs ==
    \/ CallVcsVersion
    \/ UnpackUrl \/ UnpackUrlFails
    \/ ChdirTmp
    \/ Checkout \/ CheckoutFails
    \/ RevParse \/ RevParseFails
    \/ Rmtree
    \/ ChdirBack
    \/ NextMatch

SpecVcs == InitVcs /\ [][NextVcs]_vars

-----------------------------------------------------------------------------
(* Properties of _get_vcs_version, under SpecVcs.                          *)

VcsEnded == pc \in {"vcs_returned", "raised"}

\* C7: when _get_vcs_version has returned or raised, the working directory is
\* the one the caller had when the call started, and the temporary directory of
\* the call is gone.
C7_WorkingDirectoryRestored ==
    VcsEnded => (cwd = caller_cwd /\ tmp_dir \notin tmp_dirs)

-----------------------------------------------------------------------------
(* Installer._resolve_and_compare: the merge of a targeted update.         *)

\* Most packages of one resolution or one lock.
MaxPackages == 2

Versions == {"1.0", "2.0"}

ResolvedPackage == [name : Names, version : Versions, category : {"main", "dev"}]

\* What _resolve returns (line 487): sorted by name, one package per name.
Sorted(ps) ==
    \A i, j \in 1..Len(ps) : i < j => NameRank(ps[i].name) < NameRank(ps[j].name)

PackageListsOf(S) == { ps \in SeqsUpTo(S, MaxPackages) : Sorted(ps) }

PackageLists == PackageListsOf(ResolvedPackage)

\* Lines 335-352: the first targeted package of that name, 0 without one.
FindNew(news, name) ==
    IF \E i \in 1..Len(news) : news[i].name = name
    THEN CHOOSE i \in 1..Len(news) :
            /\ news[i].name = name
            /\ \A j \in 1..(i - 1) : news[j].name # name
    ELSE 0

\* Line 339: `if pkg['version'] != pkg['version']`.
Incompatible(pkg, new_pkg) == pkg.version # pkg.version

\* Lines 334-354: what one package of the full resolution puts in `packages`
\* (`package = pkg` before the inner loop and again on a match), or the raise.
Merged(pkg, news) ==
    LET k == FindNew(news, pkg.name)
    IN  IF k = 0
        THEN [raised |-> FALSE, package |-> pkg]
        ELSE IF Incompatible(pkg, news[k])
        THEN [raised |-> TRUE, package |-> pkg]
        ELSE [raised |-> FALSE, package |-> pkg]

\* Lines 331-356; `raised` says that the loop ended in the exception.
_resolve_and_compare(news, alls) ==
    [raised |-> \E i \in 1..Len(alls) : Merged(alls[i], news).raised,
     packages |-> [i \in 1..Len(alls) |-> Merged(alls[i], news).package]]

InitCompare ==
    /\ pc = "compare"
    /\ error = None
    /\ new_packages \in PackageLists
    /\ all_packages \in PackageLists
    /\ packages = << >>
    /\ deps = Idle
    /\ IdleResolve /\ IdlePlan /\ IdleVcs /\ IdleUpdate

\* The merge, to its return or to its exception.
Compare ==
    /\ pc = "compare"
    /\ LET r == _resolve_and_compare(new_packages, all_packages)
       IN  IF r.raised
           THEN /\ pc' = "raised"
                /\ error' = "Incompatibility"
                /\ UNCHANGED packages
           ELSE /\ pc' = "returned"
                /\ packages' = r.packages
                /\ UNCHANGED error
    /\ UNCHANGED << deps, resolveVars, planVars, compareVars, vcsVars, updateVars >>

NextCompare == Compare

SpecCompare == InitCompare /\ [][NextCompare]_vars

-----------------------------------------------------------------------------
(* Properties of the merge, under SpecCompare.                             *)

\* A name resolved on both sides to two different versions.
VersionConflict ==
    \E i \in 1..Len(all_packages) : \E j \in 1..Len(new_packages) :
        /\ all_packages[i].name = new_packages[j].name
        /\ all_packages[i].version # new_packages[j].version

\* C8: when a name is in the targeted and in the full resolution with two
\* different versions, the merge raises the incompatibility error and returns
\* no merged package set.
C8_IncompatibilityRaises ==
    (pc \in {"returned", "raised"} /\ VersionConflict) =>
        (pc = "raised" /\ error = "Incompatibility" /\ packages = << >>)

\* C11: in the merged result, every name that is in both resolutions holds the
\* targeted resolution's entry, and every name that is only in the full
\* resolution holds the full resolution's entry.
C11_TargetedEntryWins ==
    pc = "returned" =>
        /\ Len(packages) = Len(all_packages)
        /\ \A i \in 1..Len(packages) :
              LET k == FindNew(new_packages, all_packages[i].name)
              IN  packages[i] = IF k # 0 THEN new_packages[k] ELSE all_packages[i]

-----------------------------------------------------------------------------
(* Installer.update, with dev left at its default (True).                  *)

\* The resolutions and locks of update: every package in the main section.
UpdateLists == PackageListsOf([name : Names, version : Versions, category : {"main"}])

\* Lines 204-206 and 235: the PipDependency of a locked or resolved package.
AsDependencies(ps) ==
    [i \in 1..Len(ps) |-> [name |-> ps[i].name, constraint |-> ps[i].version]]

\* Lines 561-568: the pip command of one action.
Command(a) ==
    [pip |-> CASE a.action = "remove" -> "uninstall"
               [] a.action = "update" -> "install -U"
               [] OTHER -> "install",
     name |-> a.dep.name]

InitUpdate ==
    /\ pc = "update"
    /\ error = None
    /\ lock_file \in UpdateLists
    /\ lock_start = lock_file
    /\ lock_writes = 0
    /\ executed = << >>
    /\ targets \in { << >>, << "a" >> }
    /\ features \in { << >>, << "docs" >> }
    /\ dry_run \in BOOLEAN
    /\ is_lock \in BOOLEAN
    /\ deps = << >>
    /\ current_deps = << >>
    /\ packages = << >>
    /\ delete = FALSE
    /\ actions = << >>
    /\ IdleResolve /\ IdleCompare /\ IdleVcs

\* Leaving update by an exception.
Fail(e) ==
    /\ pc' = "raised"
    /\ error' = e
    /\ UNCHANGED << deps, packages, resolveVars, planVars, compareVars, vcsVars,
                    updateVars >>

\* Lines 189-190.
RefuseLockProject == pc = "update" /\ is_lock /\ Fail("LockProject")

\* Lines 192-193.
RefusePackagesAndFeatures ==
    /\ pc = "update"
    /\ ~is_lock
    /\ targets # << >> /\ features # << >>
    /\ Fail("PackagesAndFeatures")

\* Lines 202-206: the lock is read, once.
ReadLock ==
    /\ pc = "update"
    /\ ~is_lock
    /\ ~(targets # << >> /\ features # << >>)
    /\ current_deps' = AsDependencies(lock_file)
    /\ pc' = "resolve"
    /\ UNCHANGED << error, deps, packages, delete, actions, resolveVars,
                    compareVars, vcsVars, updateVars >>

\* Lines 227-233: `packages` is rebound to the resolution, targeted or not.
ResolveDependencies ==
    /\ pc = "resolve"
    /\ IF targets # << >>
       THEN \E news \in UpdateLists : \E alls \in UpdateLists :
               LET r == _resolve_and_compare(news, alls)
               IN  IF r.raised
                   THEN /\ pc' = "raised"
                        /\ error' = "Incompatibility"
                        /\ UNCHANGED packages
                   ELSE /\ pc' = "plan"
                        /\ packages' = r.packages
                        /\ UNCHANGED error
       ELSE /\ packages' \in UpdateLists
            /\ pc' = "plan"
            /\ UNCHANGED error
    /\ UNCHANGED << deps, resolveVars, planVars, compareVars, vcsVars, updateVars >>

\* The resolver raises: propagated.
ResolutionFails == pc = "resolve" /\ Fail("ResolutionError")

\* PlanActions that takes delete from the `packages` argument of update.
PlanActionsByArgument ==
    /\ pc = "plan"
    /\ deps' = AsDependencies(packages)
    /\ delete' = (targets = << >> /\ features = << >>)
    /\ actions' = _resolve_update_actions(deps', current_deps, delete')
    /\ pc' = IF actions' = << >> THEN "returned" ELSE "perform"
    /\ UNCHANGED << error, packages, current_deps, resolveVars, compareVars,
                    vcsVars, updateVars >>

\* Lines 235-243: the plan; without actions update returns here.
PlanActions ==
    /\ pc = "plan"
    /\ deps' = AsDependencies(packages)
    /\ delete' = (packages = << >> /\ features = << >>)
    /\ actions' = _resolve_update_actions(deps', current_deps, delete')
    /\ pc' = IF actions' = << >> THEN "returned" ELSE "perform"
    /\ UNCHANGED << error, packages, current_deps, resolveVars, compareVars,
                    vcsVars, updateVars >>

\* Lines 592-595 and 262-263: a dry run prints every action and returns.
DryRun ==
    /\ pc = "perform"
    /\ dry_run
    /\ pc' = "returned"
    /\ UNCHANGED << error, deps, packages, resolveVars, planVars, compareVars,
                    vcsVars, updateVars >>

\* Line 597: the pip command of the next action ends well.
ExecuteAction ==
    /\ pc = "perform"
    /\ ~dry_run
    /\ Len(executed) < Len(actions)
    /\ executed' = Append(executed, Command(actions[Len(executed) + 1]))
    /\ UNCHANGED << pc, error, deps, packages, resolveVars, planVars, compareVars,
                    vcsVars, lock_file, lock_start, lock_writes, targets, features,
                    dry_run, is_lock >>

\* ActionFails in an update that writes the lock whatever happened.
ActionFailsWritingLock ==
    /\ pc = "perform"
    /\ ~dry_run
    /\ Len(executed) < Len(actions)
    /\ pc' = "raised"
    /\ error' = "ActionError"
    /\ lock_file' = packages
    /\ lock_writes' = lock_writes + 1
    /\ UNCHANGED << deps, packages, resolveVars, planVars, compareVars, vcsVars,
                    lock_start, executed, targets, features, dry_run, is_lock >>

\* Lines 673-680: the pip command fails; _call raises and update ends.
ActionFails ==
    /\ pc = "perform"
    /\ ~dry_run
    /\ Len(executed) < Len(actions)
    /\ Fail("ActionError")

\* Lines 265-271 and 625-631: every action done, the lock is written.
WriteLock ==
    /\ pc = "perform"
    /\ ~dry_run
    /\ Len(executed) = Len(actions)
    /\ lock_file' = packages
    /\ lock_writes' = lock_writes + 1
    /\ pc' = "returned"
    /\ UNCHANGED << error, deps, packages, resolveVars, planVars, compareVars,
                    vcsVars, lock_start, executed, targets, features, dry_run,
                    is_lock >>

NextUpdate ==
    \/ RefuseLockProject
    \/ RefusePackagesAndFeatures
    \/ ReadLock
    \/ ResolveDependencies
    \/ ResolutionFails
    \/ PlanActions
    \/ DryRun
    \/ ExecuteAction
    \/ ActionFails
    \/ WriteLock

SpecUpdate == InitUpdate /\ [][NextUpdate]_vars

-----------------------------------------------------------------------------
(* Properties of update, under SpecUpdate.                                 *)

\* C9: the lock is written only once every planned action has been executed
\* without error: a run in which an action fails leaves the lock as it was when
\* update started, and no write of the lock precedes the execution of an action.
C9_LockWrittenLast ==
    /\ (pc = "raised" /\ error = "ActionError") =>
          (lock_writes = 0 /\ lock_file = lock_start)
    /\ pc = "perform" => (lock_writes = 0 /\ lock_file = lock_start)
    /\ lock_writes > 0 =>
          /\ pc = "returned"
          /\ lock_writes = 1
          /\ lock_file = packages
          /\ executed = [i \in 1..Len(actions) |-> Command(actions[i])]

\* C9's case: an action failed after another had been executed, and the lock
\* still holds what it held, which is not the new resolution.
C9_Witness ==
    /\ pc = "raised" /\ error = "ActionError"
    /\ Len(executed) >= 1
    /\ lock_file = lock_start
    /\ lock_file # packages

\* update has planned: it performs, has returned after its plan, or an action
\* of the plan failed.
HasPlanned ==
    \/ pc = "perform"
    \/ pc = "raised" /\ error = "ActionError"
    \/ pc = "returned"

\* The locked packages the new resolution does not name.
Dropped ==
    { n \in Names :
        /\ \E i \in 1..Len(lock_start) : lock_start[i].name = n
        /\ \A j \in 1..Len(packages) : packages[j].name # n }

\* C13: update plans removals only when the resolution it got is empty and no
\* features were given; with a non-empty resolution no remove is planned and no
\* uninstall is run, also for a locked package the resolution dropped.
C13_NoRemovalUnlessResolutionEmpty ==
    HasPlanned =>
        /\ delete = (packages = << >> /\ features = << >>)
        /\ packages # << >> =>
              /\ \A i \in 1..Len(actions) : actions[i].action # "remove"
              /\ \A i \in 1..Len(executed) : executed[i].pip # "uninstall"

\* C13's case: an untargeted update without features wrote the lock of a
\* non-empty resolution that dropped a locked package, and uninstalled nothing.
C13_Witness ==
    /\ pc = "returned"
    /\ lock_writes = 1
    /\ targets = << >> /\ features = << >>
    /\ packages # << >>
    /\ Dropped # {}
    /\ executed # << >>
    /\ \A i \in 1..Len(executed) : executed[i].pip # "uninstall"

=============================================================================
